---- MODULE Spec2Model ----
(***************************************************************************)
(* HandTracking (src/unnamed/part_000, lines 1-1536): the gesture-driven   *)
(* manipulation engine, its swipe detector and the chart animation state   *)
(* machine, together with the timers, the catalog request and the effect   *)
(* instances that own the two callback loops.                              *)
(*                                                                         *)
(* Coordinates: a normalized coordinate c in [0,1] is the integer          *)
(* c * Scale.  Times: one unit is 100 ms.  A timestamp read from           *)
(* Date.now() is kept as its age (now - timestamp), capped where the code  *)
(* no longer distinguishes larger ages.                                    *)
(***************************************************************************)
EXTENDS Integers, Sequences, FiniteSets, Bags, TLC

\* ---------------------------------------------------------------- bounds
MaxToasts  == 1   \* pending toast-expiry timers
MaxShow    == 1   \* pending generate-delay + entering timers
MaxHide    == 1   \* pending exiting timers
MaxFetches == 1   \* catalog requests in flight
MaxStale   == 1   \* loops of cleaned-up effect instances that get started
MaxFrames  == 3   \* detection results delivered in one behaviour
MaxDragFrames == 6 \* the same, in behaviours that only drag and drop
MaxSwipeFrames == 4 \* the same, in behaviours that start with the chart shown
MaxLiveFrames == 2 \* the same, in behaviours that drop and generate once
MaxNotices == 2    \* pending toast-expiry timers, in behaviours about notices
MaxNoticeFrames == 3 \* detection results delivered in those behaviours
MaxClock == 400    \* latest callback timestamp, in behaviours about the frame cap
MaxCapFrames == 2  \* detection results delivered in those behaviours
MaxDevices == 3    \* devices in one enumeration result
MaxCalls == 2      \* recorded invocations of onCameraSelect
MaxGenerates == 2  \* generate actions outstanding, in behaviours that pinch the button again
MaxAgainFrames == 2 \* detection results delivered in those behaviours
MaxDropFrames == 5 \* detection results delivered in behaviours that probe the drop zone
MaxTables == 8     \* table names the catalog returns
MaxLayoutFrames == 3 \* detection results delivered in behaviours about the layout
MaxExits == 2      \* pending exiting timers, in behaviours that swipe while exiting
MaxExitFrames == 4 \* detection results delivered in those behaviours
MaxHitFrames == 4 \* the same, in behaviours that probe the hit test
MaxDownFrames == 2 \* the same, in behaviours that end with the unmount

\* ------------------------------------------------------ program constants
Scale          == 200
CanvasWidth    == 1200
CanvasHeight   == 800
PinchThreshold == 10    \* 0.05
ClampMin       == 10    \* 0.05
ClampMax       == 190   \* 0.95
TablePixelSize == 60
ButtonOffset   == 60
ButtonPixelW   == 120
ButtonPixelH   == 40
SwipeMinDX     == 60    \* 0.3
SwipeMaxDY     == 40    \* 0.2
SwipeTimeout   == 10    \* 1000 ms
ToastDuration  == 30    \* 3000 ms
GenerateDelay  == 5     \* 500 ms
EnterDuration  == 8     \* 800 ms
ExitDuration   == 6     \* 600 ms
FrameInterval  == 100   \* 1000 / 30 ms, in callback-timestamp units of 1/3 ms

dropZone == [x |-> 100, y |-> 140, width |-> 60, height |-> 40]

DefaultTables == <<"users", "posts", "comments", "products">>

ViewStates == {"hidden", "entering", "visible", "exiting"}

\* ------------------------------------------------------------- utilities
Abs(n) == IF n < 0 THEN -n ELSE n

Min(a, b) == IF a < b THEN a ELSE b

Max(a, b) == IF a > b THEN a ELSE b

Range(s) == {s[i] : i \in DOMAIN s}

\* Squared Euclidean distance; sqrt(d2) < r is decided as d2 < r * r.
Dist2(ax, ay, bx, by) == (ax - bx) * (ax - bx) + (ay - by) * (ay - by)

\* Age of a timestamp after one more time unit, capped.
Older(age, cap) == Min(age + 1, cap)

\* ----------------------------------------------------------------- hands
\* One detected hand: thumb tip (4), index tip (8), index PIP (6).
Hand(tx, ty, ix, iy, py) ==
    [thumb |-> [x |-> tx, y |-> ty], index |-> [x |-> ix, y |-> iy], pipY |-> py]

\* Thumb and index tips together, index tip below its PIP joint.
PinchAt(px, py) == Hand(px, py, px, py, py - 10)

\* Open hand, index tip above its PIP joint.
PointAt(ix, iy) == Hand(ix + 40, iy + 40, ix, iy, iy + 10)

HTable1  == PinchAt(20, 20)      \* on the first table's initial position
HTable2  == PinchAt(50, 20)      \* on the second table's initial position
HFar     == PinchAt(200, 200)    \* bottom-right corner of the frame
HCorner  == PinchAt(0, 0)        \* top-left corner of the frame
HZone    == PinchAt(100, 140)    \* centre of the drop zone
HButton  == PinchAt(140, 140)    \* centre of the generate button
HSwipeA  == PointAt(40, 100)     \* open hand, index extended
HSwipeB  == PointAt(110, 100)    \* 0.35 to the right of HSwipeA
HFist    == Hand(80, 140, 40, 100, 90)  \* open thumb, index below its PIP
HSwipeC  == PointAt(100, 100)    \* exactly 0.3 to the right of HSwipeA
HSwipeD  == PointAt(110, 140)    \* as HSwipeB, exactly 0.2 lower
HSwipeE  == PointAt(101, 139)    \* just past 0.3, just short of 0.2

HNear    == PinchAt(34, 20)      \* 0.07 from the first table, 0.08 from the second
HEdge    == PinchAt(35, 20)      \* exactly 0.075 from both tables
HBetween == PinchAt(45, 20)      \* 0.025 from the second table's initial position
HButtonCorner == PinchAt(130, 135)  \* top-left corner of the generate button

HLoose   == Hand(20, 20, 28, 24, 14)  \* tips 0.0447 apart, midpoint (0.12, 0.11)
HExact   == Hand(20, 20, 26, 28, 18)  \* tips exactly 0.05 apart

HZoneCorner    == PinchAt(70, 120)   \* top-left corner of the drop zone
HZoneOutside   == PinchAt(69, 120)   \* 0.005 left of that corner
HZoneFarCorner == PinchAt(130, 160)  \* bottom-right corner of the drop zone
HZoneBelow     == PinchAt(130, 161)  \* 0.005 below that corner

\* Hands that do not pinch.
OpenHands == {HSwipeA, HSwipeB, HFist}

\* -------------------------------------------------------- CameraSelector
\* A property that is undefined in a MediaDeviceInfo or in the state.
Undefined == "<undefined>"

\* JavaScript truthiness of a string-or-undefined value.
Truthy(v) == v \notin {"", Undefined}

Device(kind, deviceId, label) ==
    [kind |-> kind, deviceId |-> deviceId, label |-> label]

DeviceChoices ==
    {Device("videoinput", "camera1", "Front"),
     Device("videoinput", "camera2", ""),
     Device("videoinput", "", "Back"),
     Device("videoinput", Undefined, "Side"),
     Device("audioinput", "mic1", "Mic"),
     Device(Undefined, "camera4", Undefined)}

\* Enumeration results: every sequence of at most MaxDevices devices.
EnumerationResults ==
    UNION {[1..n -> DeviceChoices] : n \in 0..MaxDevices}

\* `Camera ${index + 1}`
DefaultLabel(n) == <<"Camera 1", "Camera 2", "Camera 3", "Camera 4">>[n]

RECURSIVE Filter(_, _)
Filter(devices, kind) ==
    IF devices = <<>> THEN <<>>
    ELSE IF Head(devices).kind = kind
         THEN <<Head(devices)>> \o Filter(Tail(devices), kind)
         ELSE Filter(Tail(devices), kind)

\* devices.filter(d => d.kind === 'videoinput').map((d, index) => ...)
VideoDevices(devices) ==
    LET video == Filter(devices, "videoinput")
    IN [i \in DOMAIN video |->
          [deviceId |-> video[i].deviceId,
           label |-> IF Truthy(video[i].label) THEN video[i].label
                     ELSE DefaultLabel(i)]]

NoCamerasError == "No cameras found on this device"

AccessError ==
    "Unable to access cameras. Please ensure you have granted camera permissions."

\* CameraSelector after its first render: the four useState values, whether
\* it is mounted, what getCameras is awaiting, the option the select element
\* shows (chosen), and as history the enumeration result and the arguments
\* onCameraSelect was invoked with.
SelectorInit ==
    [cameras |-> <<>>, selectedCamera |-> "", loading |-> TRUE, error |-> "",
     mounted |-> TRUE, pending |-> "permission", chosen |-> 1,
     devices |-> <<>>, calls |-> <<>>]

\* CameraSelector once App has replaced it by HandTracking.
SelectorUsed ==
    [cameras |-> <<[deviceId |-> "camera1", label |-> "Front"]>>,
     selectedCamera |-> "camera1", loading |-> FALSE, error |-> "",
     mounted |-> FALSE, pending |-> "none", chosen |-> 1,
     devices |-> <<Device("videoinput", "camera1", "Front")>>,
     calls |-> <<"camera1">>]

VARIABLES
    showChart,            \* useState showChart
    chartAnimationState,  \* useState chartAnimationState
    chartAnimationAge,    \* now - chartAnimationStartRef.current, capped
    chartData,            \* useState chartData
    toast,                \* useState toast: "none", "info" or "error"
    loadingData,          \* useState loadingData
    tables,               \* tablesRef.current
    draggedTable,         \* draggedTableRef.current (0: null, else table index)
    droppedTables,        \* droppedTablesRef.current
    generateButtonHover,  \* generateButtonHoverRef.current
    buttonClicked,        \* buttonClickedRef.current
    pinchState,           \* pinchStateRef.current
    swipeState,           \* swipeStateRef.current (startTime kept as age)
    handResults,          \* handResultsRef.current (null kept as <<>>)
    timers,               \* pending setTimeout callbacks: bag of [kind, rem]
    fetches,              \* fetchTableData calls in flight: their table lists
    cur,                  \* the effect instance created by the latest render
    zombies,              \* showChart captured by loops of cleaned-up instances
    handsStarted,         \* some instance has created its Hands detector
    mounted,              \* the component is mounted (no teardown yet)
    infer,                \* processFrame of the latest instance: off, armed, awaiting
    strayInfer,           \* a processFrame of a cleaned-up instance still re-arms
    leaked,               \* a stream acquired after its instance's cleanup is live
    clock,                \* timestamp of the latest renderLoop callback, in 1/3 ms
    lastFrameTime,        \* lastFrameTime in the closure of the latest instance
    lastTickTime,         \* timestamp of the latest executed tick (history only)
    selector,             \* CameraSelector: its state, its request, its callback
    frames,               \* detection results delivered so far
    ev                    \* what the last step did (history only)

vars == <<showChart, chartAnimationState, chartAnimationAge, chartData, toast,
          loadingData, tables, draggedTable, droppedTables, generateButtonHover,
          buttonClicked, pinchState, swipeState, handResults, timers, fetches,
          cur, zombies, handsStarted, mounted, infer, strayInfer, leaked,
          clock, lastFrameTime, lastTickTime, selector, frames, ev>>

reactVars == <<showChart, chartAnimationState, chartData, toast, loadingData>>

loopVars == <<mounted, infer, strayInfer, leaked>>

\* What no step of HandTracking other than a timed tick touches.
outsideVars == <<clock, lastTickTime, selector>>

\* Everything that belongs to HandTracking.
trackingVars == <<showChart, chartAnimationState, chartAnimationAge, chartData,
                  toast, loadingData, tables, draggedTable, droppedTables,
                  generateButtonHover, buttonClicked, pinchState, swipeState,
                  handResults, timers, fetches, cur, zombies, handsStarted,
                  mounted, infer, strayInfer, leaked, clock, lastFrameTime,
                  lastTickTime, frames>>

dragVars == <<tables, draggedTable, droppedTables, generateButtonHover,
              buttonClicked, pinchState>>

AnimCap  == EnterDuration + 1
SwipeCap == SwipeTimeout + 1

EmptyChartData == [tables |-> <<>>, data |-> {}, demo |-> FALSE]

\* History of a step: what it did, and the view state it started from.
Did(what) == [what |-> what, from |-> chartAnimationState]

NoTick == [what |-> "none", from |-> "none"]

\* No tick has been executed yet.
NoTime == 0 - 1

Init ==
    /\ showChart = FALSE
    /\ chartAnimationState = "hidden"
    /\ chartAnimationAge = AnimCap
    /\ chartData = EmptyChartData
    /\ toast = "none"
    /\ loadingData = FALSE
    /\ tables = <<>>
    /\ draggedTable = 0
    /\ droppedTables = <<>>
    /\ generateButtonHover = FALSE
    /\ buttonClicked = FALSE
    /\ pinchState = [isPinching |-> FALSE, x |-> 0, y |-> 0]
    /\ swipeState = [isTracking |-> FALSE, startX |-> 0, startY |-> 0,
                     currentX |-> 0, currentY |-> 0, age |-> SwipeCap]
    /\ handResults = <<>>
    /\ timers = EmptyBag
    /\ fetches = <<>>
    /\ cur = [sc |-> FALSE, phase |-> "setup"]
    /\ zombies = {}
    /\ handsStarted = FALSE
    /\ mounted = TRUE
    /\ infer = "off"
    /\ strayInfer = FALSE
    /\ leaked = FALSE
    /\ clock = 0
    /\ lastFrameTime = 0
    /\ lastTickTime = NoTime
    /\ selector = SelectorUsed
    /\ frames = 0
    /\ ev = NoTick

\* ----------------------------------------------------- timers (setTimeout)
Timer(kind, rem) == [kind |-> kind, rem |-> rem]

AddTimer(b, kind, rem) == b (+) SetToBag({Timer(kind, rem)})

Pending(b, kinds) ==
    LET S == {t \in BagToSet(b) : t.kind \in kinds}
        RECURSIVE Sum(_)
        Sum(T) == IF T = {} THEN 0
                  ELSE LET t == CHOOSE u \in T : TRUE
                       IN CopiesIn(t, b) + Sum(T \ {t})
    IN Sum(S)

\* Every pending timer one time unit closer to its deadline.
Elapse(b) ==
    LET D == {Timer(t.kind, t.rem - 1) : t \in BagToSet(b)}
    IN [t \in D |-> b[Timer(t.kind, t.rem + 1)]]

\* ------------------------------------------------------ button geometry
buttonX == (dropZone.x * CanvasWidth + (dropZone.width * CanvasWidth) \div 2
            + ButtonOffset * Scale) \div CanvasWidth

buttonY == (dropZone.y * CanvasHeight) \div CanvasHeight

buttonWidth == (ButtonPixelW * Scale) \div CanvasWidth

buttonHeight == (ButtonPixelH * Scale) \div CanvasHeight

\* The button test with its bounds excluded.
InButtonStrict(px, py) ==
    /\ px > buttonX - buttonWidth \div 2
    /\ px < buttonX + buttonWidth \div 2
    /\ py > buttonY - buttonHeight \div 2
    /\ py < buttonY + buttonHeight \div 2

\* pinchX >= buttonLeft && pinchX <= buttonRight && pinchY >= buttonTop && ...
InButton(px, py) ==
    /\ px >= buttonX - buttonWidth \div 2
    /\ px <= buttonX + buttonWidth \div 2
    /\ py >= buttonY - buttonHeight \div 2
    /\ py <= buttonY + buttonHeight \div 2

tableSize == (TablePixelSize * Scale) \div Min(CanvasWidth, CanvasHeight)

\* for (const table of currentTables) ... break: first table within reach, or 0.
HitTable(ts, px, py) ==
    LET hits == {i \in DOMAIN ts :
                    Dist2(px, py, ts[i].x, ts[i].y) < tableSize * tableSize}
    IN IF hits = {} THEN 0 ELSE CHOOSE i \in hits : \A j \in hits : i <= j

\* The clamp without its lower bound.
ClampAbove(v) == Min(ClampMax, v)

\* Math.max(0.05, Math.min(0.95, v))
Clamp(v) == Max(ClampMin, Min(ClampMax, v))

\* The containment test with its bounds excluded.
InDropZoneStrict(tx, ty) ==
    /\ tx > dropZone.x - dropZone.width \div 2
    /\ tx < dropZone.x + dropZone.width \div 2
    /\ ty > dropZone.y - dropZone.height \div 2
    /\ ty < dropZone.y + dropZone.height \div 2

\* tableX >= dropZoneLeft && tableX <= dropZoneRight && tableY >= ...
InDropZone(tx, ty) ==
    /\ tx >= dropZone.x - dropZone.width \div 2
    /\ tx <= dropZone.x + dropZone.width \div 2
    /\ ty >= dropZone.y - dropZone.height \div 2
    /\ ty <= dropZone.y + dropZone.height \div 2

\* The push without the includes test.
DropAgain(dropped, name) == Append(dropped, name)

\* droppedTablesRef.current.push(name) unless includes(name)
DropInto(dropped, name) ==
    IF name \in Range(dropped) THEN dropped ELSE Append(dropped, name)

\* ------------------------------------------------- manipulation, per hand
\* The refs a manipulation tick reads and writes, as one record; gen collects
\* the generate actions evaluated (each with droppedTablesRef as it was then)
\* and drops the names released inside the drop zone (each with whether it
\* was a member already).
Refs ==
    [tables |-> tables, dragged |-> draggedTable, dropped |-> droppedTables,
     hover |-> generateButtonHover, clicked |-> buttonClicked,
     pinch |-> pinchState, gen |-> <<>>, drops |-> <<>>]

\* The pinch test with the threshold included.
IsPinchingAtThreshold(h) ==
    Dist2(h.thumb.x, h.thumb.y, h.index.x, h.index.y)
        <= PinchThreshold * PinchThreshold

\* const isPinching = distance < pinchThreshold
IsPinching(h) ==
    Dist2(h.thumb.x, h.thumb.y, h.index.x, h.index.y)
        < PinchThreshold * PinchThreshold

PinchX(h) == (h.thumb.x + h.index.x) \div 2

PinchY(h) == (h.thumb.y + h.index.y) \div 2

PinchStart(r, px, py) ==
    LET hit == HitTable(r.tables, px, py)
        r1 == IF InButton(px, py)
              THEN [r EXCEPT !.hover = TRUE,
                             !.clicked = TRUE,
                             !.gen = IF r.clicked THEN @
                                     ELSE Append(@, r.dropped)]
              ELSE IF hit # 0
              THEN [r EXCEPT !.dragged = hit,
                             !.tables = [@ EXCEPT ![hit].isDragging = TRUE]]
              ELSE r
    IN [r1 EXCEPT !.pinch = [isPinching |-> TRUE, x |-> px, y |-> py]]

PinchContinue(r, px, py) ==
    LET d  == r.dragged
        r1 == IF d # 0
              THEN [r EXCEPT !.tables =
                       [@ EXCEPT ![d].x = Clamp(@ + (px - r.pinch.x)),
                                 ![d].y = Clamp(@ + (py - r.pinch.y))]]
              ELSE r
    IN [r1 EXCEPT !.pinch = [isPinching |-> TRUE, x |-> px, y |-> py]]

PinchRelease(r) ==
    LET d  == r.dragged
        r1 == [r EXCEPT !.hover = FALSE, !.clicked = FALSE]
        r2 == IF d # 0
              THEN IF InDropZone(r.tables[d].x, r.tables[d].y)
                   THEN [r1 EXCEPT
                           !.tables = [@ EXCEPT ![d].isDragging = FALSE],
                           !.dropped = DropInto(@, r.tables[d].name),
                           !.drops = Append(@,
                               [name |-> r.tables[d].name,
                                member |-> r.tables[d].name \in Range(r.dropped)]),
                           !.dragged = 0]
                   ELSE [r1 EXCEPT
                           !.tables = [@ EXCEPT ![d].isDragging = FALSE],
                           !.dragged = 0]
              ELSE r1
    IN [r2 EXCEPT !.pinch = [isPinching |-> FALSE, x |-> 0, y |-> 0]]

\* The loop body with every pinching frame taken as a pinch start.
ProcessHandAlwaysStarts(r, h) ==
    IF IsPinching(h)
    THEN PinchStart(r, PinchX(h), PinchY(h))
    ELSE IF r.pinch.isPinching
         THEN PinchRelease(r)
         ELSE r

\* Body of the loop over results.multiHandLandmarks for one hand.
ProcessHand(r, h) ==
    IF IsPinching(h)
    THEN IF ~r.pinch.isPinching
         THEN PinchStart(r, PinchX(h), PinchY(h))
         ELSE PinchContinue(r, PinchX(h), PinchY(h))
    ELSE IF r.pinch.isPinching
         THEN PinchRelease(r)
         ELSE r

\* The no-hands release without the reset of the drag target.
NoHandsReleaseKeepsTarget(r) ==
    [r EXCEPT !.hover = FALSE,
              !.pinch = [isPinching |-> FALSE, x |-> 0, y |-> 0]]

\* else-branch of the results test: no hands detected while pinching.
NoHandsRelease(r) ==
    LET d  == r.dragged
        r1 == [r EXCEPT !.hover = FALSE]
        r2 == IF d # 0
              THEN [r1 EXCEPT !.tables = [@ EXCEPT ![d].isDragging = FALSE],
                              !.dragged = 0]
              ELSE r1
    IN [r2 EXCEPT !.pinch = [isPinching |-> FALSE, x |-> 0, y |-> 0]]

RECURSIVE ProcessHands(_, _)
ProcessHands(r, hs) ==
    IF hs = <<>> THEN r ELSE ProcessHands(ProcessHand(r, Head(hs)), Tail(hs))

\* Manipulation branch of renderLoop on one value of handResultsRef.
Manipulate(r, results) ==
    IF Len(results) > 0 THEN ProcessHands(r, results)
    ELSE IF r.pinch.isPinching THEN NoHandsRelease(r)
    ELSE r

\* ------------------------------------------------------------ swipe step
\* The completion test with the horizontal bound included.
SwipeCompletesFrom(deltaX, deltaY, timeElapsed) ==
    /\ Abs(deltaX) >= SwipeMinDX
    /\ deltaY < SwipeMaxDY
    /\ timeElapsed < SwipeTimeout

\* Math.abs(deltaX) > 0.3 && deltaY < 0.2 && timeElapsed < 1000
SwipeCompletes(deltaX, deltaY, timeElapsed) ==
    /\ Abs(deltaX) > SwipeMinDX
    /\ deltaY < SwipeMaxDY
    /\ timeElapsed < SwipeTimeout

\* Chart branch of renderLoop for the first hand: the new swipeStateRef and
\* whether hideChartWithAnimation is called.
SwipeStep(s, h) ==
    LET indexExtended == h.index.y < h.pipY
        currentX == h.index.x
        currentY == h.index.y
        deltaX == currentX - s.startX
        deltaY == Abs(currentY - s.startY)
        timeElapsed == s.age
        completes == SwipeCompletes(deltaX, deltaY, timeElapsed)
        s1 == [s EXCEPT !.currentX = currentX, !.currentY = currentY]
    IN IF ~indexExtended
       THEN [swipe |-> [s EXCEPT !.isTracking = FALSE], done |-> FALSE]
       ELSE IF ~s.isTracking
       THEN [swipe |-> [isTracking |-> TRUE, startX |-> currentX,
                        startY |-> currentY, currentX |-> currentX,
                        currentY |-> currentY, age |-> 0],
             done |-> FALSE]
       ELSE IF completes
       THEN [swipe |-> [s1 EXCEPT !.isTracking = FALSE], done |-> TRUE]
       ELSE IF timeElapsed > SwipeTimeout
       THEN [swipe |-> [s1 EXCEPT !.isTracking = FALSE], done |-> FALSE]
       ELSE [swipe |-> s1, done |-> FALSE]

\* ------------------------------------------------------ generate action
\* One generate action on the state it touches: showToast, and for a
\* non-empty droppedTablesRef (g) fetchTableData and the delayed
\* showChartWithAnimation.
Generate(st, g) ==
    LET shown == [st EXCEPT
                    !.toast = IF Len(g) = 0 THEN "error" ELSE "info",
                    !.timers = AddTimer(@, "toast", ToastDuration)]
    IN IF Len(g) = 0 THEN shown
       ELSE [shown EXCEPT
               !.fetches = Append(@, g),
               !.loading = TRUE,
               !.timers = AddTimer(@, "generate", GenerateDelay)]

\* The generate actions of one tick, in the order they were evaluated.
RECURSIVE ApplyGenerate(_, _)
ApplyGenerate(st, gens) ==
    IF gens = <<>> THEN st
    ELSE ApplyGenerate(Generate(st, Head(gens)), Tail(gens))

\* ------------------------------------------------------ chart animation
\* showChartWithAnimation without its setTimeout.
showChartAndStay(b) ==
    [showChart |-> TRUE, state |-> "entering", age |-> 0, timers |-> b]

\* showChartWithAnimation, on the timers b pending when it is called.
showChartWithAnimation(b) ==
    [showChart |-> TRUE, state |-> "entering", age |-> 0,
     timers |-> AddTimer(b, "entering", EnterDuration)]

\* hideChartWithAnimation with the 800 ms of showChartWithAnimation.
hideChartWithEnterDuration(b) ==
    [state |-> "exiting", age |-> 0,
     timers |-> AddTimer(b, "exiting", EnterDuration)]

\* hideChartWithAnimation, on the timers b pending when it is called.
hideChartWithAnimation(b) ==
    [state |-> "exiting", age |-> 0,
     timers |-> AddTimer(b, "exiting", ExitDuration)]

\* The callback hideChartWithAnimation schedules.
HideCallback ==
    [showChart |-> FALSE, state |-> "hidden", chartData |-> EmptyChartData,
     dropped |-> <<>>]

WithinEach(b, fs, maxToasts, maxShow, maxHide, maxFetches) ==
    /\ Pending(b, {"toast"}) <= maxToasts
    /\ Pending(b, {"generate", "entering"}) <= maxShow
    /\ Pending(b, {"exiting"}) <= maxHide
    /\ Len(fs) <= maxFetches

WithinLimits(b, fs, maxToasts, maxHide) ==
    WithinEach(b, fs, maxToasts, MaxShow, maxHide, MaxFetches)

WithinCaps(b, fs, maxToasts) == WithinLimits(b, fs, maxToasts, MaxHide)

WithinBounds(b, fs) == WithinCaps(b, fs, MaxToasts)

\* ------------------------------------------------------- effect instances
\* The camera effect depends on showChart, toast, chartData, loadingData and
\* chartAnimationState: a changed dependency runs the cleanup of the current
\* instance and starts a new one.  The cleanup cancels the loops of an
\* instance that is running.  An instance still awaiting its camera has
\* nothing to cancel: if its camera is delivered later (late), it starts its
\* loops then, with the showChart it captured, and nothing stops them.
\*
\* The cleanup function of the current instance: cancelAnimationFrame on the
\* ids that are set, stop() on the tracks of a stream that is set.  A
\* processFrame that is awaiting hands.send has no pending animation frame:
\* it re-arms when the request resolves.  An instance cleaned up before
\* getUserMedia resolved (leak) acquires its stream afterwards.
Cleanup ==
    \E late, leak \in BOOLEAN :
        /\ late => cur.phase = "setup"
        /\ late => Cardinality(zombies \cup {cur.sc}) <= MaxStale
        /\ leak => late
        /\ zombies' = IF late THEN zombies \cup {cur.sc} ELSE zombies
        /\ strayInfer' = (strayInfer \/ late \/ infer = "awaiting")
        /\ leaked' = (leaked \/ leak)

\* lastFrameTime belongs to the closure of one effect instance: a new
\* instance starts with lastFrameTime = 0.
KeepFrameClock ==
    lastFrameTime' = IF cur'.phase = "setup" THEN 0 ELSE lastFrameTime

Rerender(changed) ==
    /\ UNCHANGED mounted
    /\ IF changed
       THEN /\ cur' = [sc |-> showChart', phase |-> "setup"]
            /\ infer' = "off"
            /\ Cleanup
       ELSE UNCHANGED <<cur, zombies, infer, strayInfer, leaked>>

\* ---------------------------------------------------------------- actions
\* useEffect on [availableTables, tablesLoading]: one object per table name.
TablesLoaded(names) ==
    /\ UNCHANGED <<lastFrameTime, outsideVars>>
    /\ tables = <<>>
    /\ LET displayTables == IF Len(names) > 0 THEN names ELSE DefaultTables
       IN tables' = [i \in DOMAIN displayTables |->
                       [name |-> displayTables[i], x |-> 20 + (i - 1) * 30,
                        y |-> 20, isDragging |-> FALSE]]
    /\ ev' = NoTick
    /\ UNCHANGED <<reactVars, chartAnimationAge, draggedTable, droppedTables,
                   generateButtonHover, buttonClicked, pinchState, swipeState,
                   handResults, timers, fetches, cur, zombies, handsStarted,
                   loopVars, frames>>

\* setupCamera ran to its end: processFrame() and renderLoop(0) are started.
SetupDone ==
    /\ UNCHANGED <<lastFrameTime, outsideVars>>
    /\ cur.phase = "setup"
    /\ cur' = [cur EXCEPT !.phase = "running"]
    /\ handsStarted' = TRUE
    /\ infer' = "armed"
    /\ ev' = NoTick
    /\ UNCHANGED <<reactVars, chartAnimationAge, dragVars, swipeState,
                   handResults, timers, fetches, zombies, mounted, strayInfer,
                   leaked, frames>>

\* setupCamera threw (getUserMedia rejected): no loop is started.
SetupFail ==
    /\ UNCHANGED <<lastFrameTime, outsideVars>>
    /\ cur.phase = "setup"
    /\ cur' = [cur EXCEPT !.phase = "failed"]
    /\ ev' = NoTick
    /\ UNCHANGED <<reactVars, chartAnimationAge, dragVars, swipeState,
                   handResults, timers, fetches, zombies, handsStarted,
                   loopVars, frames>>

\* hands.onResults: the latest results slot is overwritten.
OnResults(results) ==
    /\ UNCHANGED <<lastFrameTime, outsideVars>>
    /\ handsStarted
    /\ frames' = frames + 1
    /\ handResults' = results
    /\ ev' = NoTick
    /\ UNCHANGED <<reactVars, chartAnimationAge, dragVars, swipeState, timers,
                   fetches, cur, zombies, handsStarted, loopVars>>

\* renderLoop with showChart false in its closure, with at most maxToasts
\* toast-expiry timers, maxShow show timers and maxFetches catalog requests
\* pending afterwards.
ManipulationOver(maxToasts, maxShow, maxFetches) ==
    LET r  == Manipulate(Refs, handResults)
        st == ApplyGenerate([toast |-> toast, timers |-> timers,
                             fetches |-> fetches, loading |-> loadingData],
                            r.gen)
    IN /\ WithinEach(st.timers, st.fetches, maxToasts, maxShow, MaxHide,
                     maxFetches)
       /\ tables' = r.tables
       /\ draggedTable' = r.dragged
       /\ droppedTables' = r.dropped
       /\ generateButtonHover' = r.hover
       /\ buttonClicked' = r.clicked
       /\ pinchState' = r.pinch
       /\ toast' = st.toast
       /\ timers' = st.timers
       /\ fetches' = st.fetches
       /\ loadingData' = st.loading
       /\ ev' = IF r.gen # <<>>
                THEN IF Len(r.gen[1]) = 0 THEN Did("generateEmpty")
                     ELSE Did("generate")
                ELSE IF r.drops # <<>>
                THEN IF r.drops[1].member THEN Did("redrop") ELSE Did("drop")
                ELSE NoTick
       /\ UNCHANGED <<showChart, chartAnimationState, chartAnimationAge,
                      chartData, swipeState, handResults, handsStarted, frames>>
       /\ Rerender(r.gen # <<>>)

ManipulationStep(maxToasts) ==
    ManipulationOver(maxToasts, MaxShow, MaxFetches)

ManipulationTick == ManipulationStep(MaxToasts)

\* renderLoop with showChart true in its closure, with at most maxHide
\* exit timers pending afterwards.
ChartStep(maxHide) ==
    LET has == Len(handResults) > 0
        sw  == IF has THEN SwipeStep(swipeState, handResults[1])
               ELSE [swipe |-> swipeState, done |-> FALSE]
    IN /\ swipeState' = sw.swipe
       /\ ev' = IF sw.done THEN Did("swipe")
                ELSE IF has THEN NoTick ELSE Did("chartNoHand")
       /\ IF sw.done
          THEN LET hide == hideChartWithAnimation(timers)
               IN /\ WithinLimits(hide.timers, fetches, MaxToasts, maxHide)
                  /\ chartAnimationState' = hide.state
                  /\ chartAnimationAge' = hide.age
                  /\ timers' = hide.timers
          ELSE UNCHANGED <<chartAnimationState, chartAnimationAge, timers>>
       /\ UNCHANGED <<showChart, chartData, toast, loadingData, dragVars,
                      handResults, fetches, handsStarted, frames>>
       /\ Rerender(chartAnimationState' # chartAnimationState)

ChartTick == ChartStep(MaxHide)

\* One executed tick of a render loop that captured showChart = sc.
Tick(sc) ==
    /\ mounted
    /\ \/ cur.phase = "running" /\ cur.sc = sc
       \/ sc \in zombies
    /\ IF sc THEN ChartTick ELSE ManipulationTick
    /\ KeepFrameClock
    /\ UNCHANGED outsideVars

\* The same with room for a second exit timer while the first one is pending.
ExitTick(sc) ==
    /\ mounted
    /\ \/ cur.phase = "running" /\ cur.sc = sc
       \/ sc \in zombies
    /\ IF sc THEN ChartStep(MaxExits) ELSE ManipulationTick
    /\ KeepFrameClock
    /\ UNCHANGED outsideVars

\* One executed tick of the running manipulation loop, with room for a
\* second generate action while the first one is outstanding.
GenerateTick ==
    /\ mounted
    /\ cur.phase = "running" /\ ~cur.sc
    /\ ManipulationOver(MaxGenerates, MaxGenerates, MaxGenerates)
    /\ KeepFrameClock
    /\ UNCHANGED outsideVars

\* One executed tick of the running manipulation loop, with room for a
\* second notice while the first one is pending.
NoticeTick ==
    /\ mounted
    /\ cur.phase = "running" /\ ~cur.sc
    /\ ManipulationStep(MaxNotices)
    /\ KeepFrameClock
    /\ UNCHANGED outsideVars

\* One requestAnimationFrame callback of the running manipulation loop, dt
\* after the previous callback: under budget it only re-arms, otherwise it
\* stores the timestamp and executes the tick.
renderLoop(dt) ==
    /\ mounted
    /\ cur.phase = "running" /\ ~cur.sc
    /\ clock + dt <= MaxClock
    /\ clock' = clock + dt
    /\ UNCHANGED selector
    /\ IF clock' - lastFrameTime < FrameInterval
       THEN /\ ev' = Did("underBudget")
            /\ UNCHANGED <<reactVars, chartAnimationAge, dragVars, swipeState,
                           handResults, timers, fetches, cur, zombies,
                           handsStarted, loopVars, frames, lastFrameTime,
                           lastTickTime>>
       ELSE /\ ManipulationTick
            /\ lastFrameTime' = IF cur'.phase = "setup" THEN 0 ELSE clock'
            /\ lastTickTime' = clock'

Due(t) == t \in BagToSet(timers) /\ t.rem = 0

\* setTimeout(() => setToast(null), 3000)
ToastTimer ==
    /\ mounted
    /\ Due(Timer("toast", 0))
    /\ timers' = timers (-) SetToBag({Timer("toast", 0)})
    /\ toast' = "none"
    /\ ev' = NoTick
    /\ UNCHANGED <<showChart, chartAnimationState, chartAnimationAge,
                   chartData, loadingData, dragVars, swipeState, handResults,
                   fetches, handsStarted, frames>>
    /\ Rerender(toast # "none")
    /\ KeepFrameClock
    /\ UNCHANGED outsideVars

\* setTimeout(() => showChartWithAnimation(), 500)
GenerateTimer ==
    /\ mounted
    /\ Due(Timer("generate", 0))
    /\ LET show == showChartWithAnimation(
                       timers (-) SetToBag({Timer("generate", 0)}))
       IN /\ timers' = show.timers
          /\ showChart' = show.showChart
          /\ chartAnimationState' = show.state
          /\ chartAnimationAge' = show.age
    /\ ev' = Did("generateTimer")
    /\ UNCHANGED <<chartData, toast, loadingData, dragVars, swipeState,
                   handResults, fetches, handsStarted, frames>>
    /\ Rerender(~showChart \/ chartAnimationState # "entering")
    /\ KeepFrameClock
    /\ UNCHANGED outsideVars

\* setTimeout(() => setChartAnimationState('visible'), 800)
EnterTimer ==
    /\ mounted
    /\ Due(Timer("entering", 0))
    /\ timers' = timers (-) SetToBag({Timer("entering", 0)})
    /\ chartAnimationState' = "visible"
    /\ ev' = Did("enterTimer")
    /\ UNCHANGED <<showChart, chartAnimationAge, chartData, toast, loadingData,
                   dragVars, swipeState, handResults, fetches, handsStarted, frames>>
    /\ Rerender(chartAnimationState # "visible")
    /\ KeepFrameClock
    /\ UNCHANGED outsideVars

\* setTimeout(() => { setShowChart(false); ... }, 600)
ExitTimer ==
    /\ mounted
    /\ Due(Timer("exiting", 0))
    /\ timers' = timers (-) SetToBag({Timer("exiting", 0)})
    /\ showChart' = HideCallback.showChart
    /\ chartAnimationState' = HideCallback.state
    /\ chartData' = HideCallback.chartData
    /\ droppedTables' = HideCallback.dropped
    /\ ev' = Did("exitTimer")
    /\ UNCHANGED <<chartAnimationAge, toast, loadingData, tables, draggedTable,
                   generateButtonHover, buttonClicked, pinchState, swipeState,
                   handResults, fetches, handsStarted, frames>>
    /\ Rerender(TRUE)
    /\ KeepFrameClock
    /\ UNCHANGED outsideVars

\* fetchTableData settles: rows for the requested tables except those in
\* missing (their query reported an error or threw; a query that returns no
\* rows leaves the same snapshot), or, when the import of the client failed,
\* the fabricated records for every requested table.
FetchSettles(i, missing, importFailed) ==
    /\ mounted
    /\ i \in DOMAIN fetches
    /\ chartData' = IF importFailed
                    THEN [tables |-> fetches[i], data |-> Range(fetches[i]),
                          demo |-> TRUE]
                    ELSE [tables |-> fetches[i],
                          data |-> Range(fetches[i]) \ missing, demo |-> FALSE]
    /\ loadingData' = FALSE
    /\ fetches' = SubSeq(fetches, 1, i - 1) \o SubSeq(fetches, i + 1, Len(fetches))
    /\ ev' = IF importFailed THEN Did("importFailed")
             ELSE IF Range(fetches[i]) \subseteq missing THEN Did("fetchFailed")
             ELSE NoTick
    /\ UNCHANGED <<showChart, chartAnimationState, chartAnimationAge, toast,
                   dragVars, swipeState, handResults, timers, handsStarted, frames>>
    /\ Rerender(TRUE)
    /\ KeepFrameClock
    /\ UNCHANGED outsideVars

\* 100 ms pass; a callback that is due runs before the clock moves on.  An
\* age is advanced only while the code can still read its timestamp:
\* chartAnimationStartRef while entering or exiting (renderChartView),
\* swipeStateRef.startTime while isTracking.
Advance ==
    /\ UNCHANGED <<lastFrameTime, outsideVars>>
    /\ \A t \in BagToSet(timers) : t.rem > 0
    /\ timers' = Elapse(timers)
    /\ chartAnimationAge' = IF chartAnimationState \in {"entering", "exiting"}
                            THEN Older(chartAnimationAge, AnimCap)
                            ELSE chartAnimationAge
    /\ swipeState' = IF swipeState.isTracking
                     THEN [swipeState EXCEPT !.age = Older(@, SwipeCap)]
                     ELSE swipeState
    /\ ev' = NoTick
    /\ UNCHANGED <<reactVars, dragVars, handResults, fetches, cur, zombies,
                   handsStarted, loopVars, frames>>

\* ------------------------------------------------- the two callback loops
\* Where processFrame of the latest instance is after its callback ran: with
\* the video ready it awaits hands.send and has no animation frame pending;
\* otherwise it has requested its next animation frame.
processFrame(ready) ==
    IF ready THEN "awaiting" ELSE infer

\* One callback of processFrame of the latest instance.
ProcessFrame(ready) ==
    /\ UNCHANGED <<lastFrameTime, outsideVars>>
    /\ mounted
    /\ infer = "armed"
    /\ infer' = processFrame(ready)
    /\ ev' = IF ready THEN Did("send") ELSE NoTick
    /\ UNCHANGED <<reactVars, chartAnimationAge, dragVars, swipeState,
                   handResults, timers, fetches, cur, zombies, handsStarted,
                   mounted, strayInfer, leaked, frames>>

\* await hands.send(...) resolves: requestAnimationFrame(processFrame).
SendDone ==
    /\ UNCHANGED <<lastFrameTime, outsideVars>>
    /\ infer = "awaiting"
    /\ infer' = "armed"
    /\ ev' = NoTick
    /\ UNCHANGED <<reactVars, chartAnimationAge, dragVars, swipeState,
                   handResults, timers, fetches, cur, zombies, handsStarted,
                   mounted, strayInfer, leaked, frames>>

\* renderLoop when getContext('2d') returns null: it returns before its
\* requestAnimationFrame, so this loop has no callback pending any more.
TickNoContext(sc) ==
    /\ UNCHANGED <<lastFrameTime, outsideVars>>
    /\ mounted
    /\ \/ /\ cur.phase = "running" /\ cur.sc = sc
          /\ cur' = [cur EXCEPT !.phase = "stopped"]
          /\ UNCHANGED zombies
       \/ /\ sc \in zombies
          /\ zombies' = zombies \ {sc}
          /\ UNCHANGED cur
    /\ ev' = Did("noContext")
    /\ UNCHANGED <<reactVars, chartAnimationAge, dragVars, swipeState,
                   handResults, timers, fetches, handsStarted, loopVars, frames>>

\* The component unmounts: the cleanup of the latest instance runs and no
\* new instance is created.
Unmount ==
    /\ UNCHANGED <<lastFrameTime, outsideVars>>
    /\ mounted
    /\ mounted' = FALSE
    /\ cur' = [cur EXCEPT !.phase = "unmounted"]
    /\ infer' = "off"
    /\ Cleanup
    /\ ev' = Did("unmount")
    /\ UNCHANGED <<reactVars, chartAnimationAge, dragVars, swipeState,
                   handResults, timers, fetches, handsStarted, frames>>

\* renderLoop of a cleaned-up instance after the unmount: canvasRef.current
\* is null, it returns without requesting another animation frame.
TickUnmounted(sc) ==
    /\ UNCHANGED <<lastFrameTime, outsideVars>>
    /\ ~mounted
    /\ sc \in zombies
    /\ zombies' = zombies \ {sc}
    /\ ev' = NoTick
    /\ UNCHANGED <<reactVars, chartAnimationAge, dragVars, swipeState,
                   handResults, timers, fetches, cur, handsStarted, loopVars,
                   frames>>

\* A setTimeout callback that is due after the unmount.  No timer is ever
\* cleared; a state setter of an unmounted component does nothing, a write
\* to a ref and a setTimeout still happen.
CallbackAfterUnmount(kind) ==
    /\ UNCHANGED <<lastFrameTime, outsideVars>>
    /\ ~mounted
    /\ Due(Timer(kind, 0))
    /\ LET rest == timers (-) SetToBag({Timer(kind, 0)})
       IN /\ timers' = IF kind = "generate"
                        THEN showChartWithAnimation(rest).timers
                        ELSE rest
          /\ chartAnimationAge' = IF kind = "generate"
                                   THEN showChartWithAnimation(rest).age
                                   ELSE chartAnimationAge
    /\ droppedTables' = IF kind = "exiting" THEN HideCallback.dropped
                         ELSE droppedTables
    /\ ev' = Did("afterUnmount")
    /\ UNCHANGED <<reactVars, tables, draggedTable, generateButtonHover,
                   buttonClicked, pinchState, swipeState, handResults, fetches,
                   cur, zombies, handsStarted, loopVars, frames>>

TimerKinds == {"toast", "generate", "entering", "exiting"}

\* The steps of the program over a set of detection results of which at most
\* maxFrames are delivered, a set of catalog table lists and a set of catalog
\* request outcomes.
NextOver(resultSet, maxFrames, catalogLists, outcomes) ==
    \/ \E names \in catalogLists : TablesLoaded(names)
    \/ SetupDone
    \/ SetupFail
    \/ \E results \in resultSet : frames < maxFrames /\ OnResults(results)
    \/ \E sc \in BOOLEAN : Tick(sc)
    \/ ToastTimer
    \/ GenerateTimer
    \/ EnterTimer
    \/ ExitTimer
    \/ \E i \in 1..MaxFetches, o \in outcomes :
          FetchSettles(i, o.missing, o.importFailed)
    \/ Advance

Settled == [missing |-> {}, importFailed |-> FALSE]

\* Frames for the view state machine: one hand grabs the first table while
\* the other carries the pinch into the drop zone; one hand opens while the
\* other pinches the generate button; an extended index finger swipes from
\* HSwipeA to HSwipeB.
ViewResults == {<<HTable1, HZone>>, <<HSwipeA, HButton>>, <<HSwipeB, HButton>>}

NextView == NextOver(ViewResults, MaxFrames, {<<"orders">>}, {Settled})

SpecView == Init /\ [][NextView]_vars

Spec == SpecView

\* Dragging and dropping only: two tables, nobody pinches the generate button.
DragHands == {HTable1, HTable2, HZone, HCorner, HFar, HSwipeA, HLoose, HExact}

DragResults ==
    {<<>>} \cup {<<h>> : h \in DragHands}
           \cup {<<h, g>> : h \in {HTable1, HSwipeA}, g \in {HZone, HSwipeA}}

NextDrag ==
    \/ TablesLoaded(<<"orders", "customers">>)
    \/ SetupDone
    \/ SetupFail
    \/ \E results \in DragResults :
          frames < MaxDragFrames /\ OnResults(results)
    \/ Tick(FALSE)

SpecDrag == Init /\ [][NextDrag]_vars

\* Drop and generate, nobody swipes; every callback that is due runs and
\* time does not stop.
LiveResults == {<<HTable1, HZone>>, <<HSwipeA, HButton>>}

NextLive ==
    \/ TablesLoaded(<<"orders">>)
    \/ SetupDone
    \/ SetupFail
    \/ \E results \in LiveResults :
          frames < MaxLiveFrames /\ OnResults(results)
    \/ \E sc \in BOOLEAN : Tick(sc)
    \/ ToastTimer
    \/ GenerateTimer
    \/ EnterTimer
    \/ FetchSettles(1, {}, FALSE)
    \/ Advance

SpecLive ==
    /\ Init
    /\ [][NextLive]_vars
    /\ WF_vars(ToastTimer)
    /\ WF_vars(GenerateTimer)
    /\ WF_vars(EnterTimer)
    /\ WF_vars(Advance)

\* Drop and generate once, with every outcome of the catalog request: all
\* rows delivered, every query failed, the client could not be imported.
EveryQueryFails == [missing |-> {"orders"}, importFailed |-> FALSE]

ImportFails == [missing |-> {}, importFailed |-> TRUE]

NextFetch ==
    \/ TablesLoaded(<<"orders">>)
    \/ SetupDone
    \/ SetupFail
    \/ \E results \in LiveResults :
          frames < MaxLiveFrames /\ OnResults(results)
    \/ \E sc \in BOOLEAN : Tick(sc)
    \/ ToastTimer
    \/ GenerateTimer
    \/ EnterTimer
    \/ \E o \in {Settled, EveryQueryFails, ImportFails} :
          FetchSettles(1, o.missing, o.importFailed)
    \/ Advance

SpecFetch == Init /\ [][NextFetch]_vars

\* The chart is shown: "orders" was dropped and generated, the catalog
\* request has settled, the 800 ms callback and the toast expiry have run and
\* the effect instance of the last render has started its loops.  The pinch
\* on the generate button was never released.
InitChart ==
    /\ showChart = TRUE
    /\ chartAnimationState = "visible"
    /\ chartAnimationAge = EnterDuration
    /\ chartData = [tables |-> <<"orders">>, data |-> {"orders"}, demo |-> FALSE]
    /\ toast = "none"
    /\ loadingData = FALSE
    /\ tables = <<[name |-> "orders", x |-> dropZone.x, y |-> dropZone.y,
                    isDragging |-> FALSE]>>
    /\ draggedTable = 0
    /\ droppedTables = <<"orders">>
    /\ generateButtonHover = TRUE
    /\ buttonClicked = TRUE
    /\ pinchState = [isPinching |-> TRUE, x |-> buttonX, y |-> buttonY]
    /\ swipeState = [isTracking |-> FALSE, startX |-> 0, startY |-> 0,
                     currentX |-> 0, currentY |-> 0, age |-> SwipeCap]
    /\ handResults = <<HSwipeA, HButton>>
    /\ timers = EmptyBag
    /\ fetches = <<>>
    /\ cur = [sc |-> TRUE, phase |-> "running"]
    /\ zombies = {}
    /\ handsStarted = TRUE
    /\ mounted = TRUE
    /\ infer = "armed"
    /\ strayInfer = FALSE
    /\ leaked = FALSE
    /\ clock = 0
    /\ lastFrameTime = 0
    /\ lastTickTime = NoTime
    /\ selector = SelectorUsed
    /\ frames = 0
    /\ ev = NoTick

SwipeHands == {HSwipeA, HSwipeB, HSwipeC, HSwipeD, HSwipeE, HFist}

SwipeResults == {<<>>} \cup {<<h>> : h \in SwipeHands}

NextSwipe ==
    \/ SetupDone
    \/ SetupFail
    \/ \E results \in SwipeResults :
          frames < MaxSwipeFrames /\ OnResults(results)
    \/ \E sc \in BOOLEAN : Tick(sc)
    \/ ExitTimer
    \/ Advance

SpecSwipe == InitChart /\ [][NextSwipe]_vars

\* Leaving the chart: swipes back and forth, then the table that lies in the
\* drop zone is picked up and released again.
ExitResults == {<<HSwipeA>>, <<HSwipeB>>, <<HZone>>}

NextExit ==
    \/ SetupDone
    \/ SetupFail
    \/ \E results \in ExitResults :
          frames < MaxExitFrames /\ OnResults(results)
    \/ \E sc \in BOOLEAN : ExitTick(sc)
    \/ ExitTimer
    \/ Advance

SpecExit == InitChart /\ [][NextExit]_vars

\* Drop, generate, and the button pinched again before the chart is shown.
NextAgain ==
    \/ TablesLoaded(<<"orders">>)
    \/ SetupDone
    \/ SetupFail
    \/ \E results \in LiveResults :
          frames < MaxAgainFrames /\ OnResults(results)
    \/ GenerateTick
    \/ ToastTimer
    \/ GenerateTimer
    \/ EnterTimer
    \/ \E i \in 1..MaxGenerates : FetchSettles(i, {}, FALSE)
    \/ Advance

SpecAgain == Init /\ [][NextAgain]_vars

\* Probing the drop zone: an object is carried onto the zone's corners and
\* just past them, released, picked up and released again.
DropHands == {HTable1, HZone, HZoneCorner, HZoneOutside, HZoneFarCorner,
              HZoneBelow, HSwipeA}

DropResults == {<<h>> : h \in DropHands}

NextDrop ==
    \/ TablesLoaded(<<"orders", "customers">>)
    \/ SetupDone
    \/ SetupFail
    \/ \E results \in DropResults :
          frames < MaxDropFrames /\ OnResults(results)
    \/ Tick(FALSE)

SpecDrop == Init /\ [][NextDrop]_vars

\* The initial layout for catalogs of every size up to MaxTables; an empty
\* catalog gives the four default tables.
CatalogNames ==
    <<"orders", "customers", "items", "users", "posts", "comments",
      "products", "payments", "refunds", "carts", "stores", "staff">>

Catalogs == {SubSeq(CatalogNames, 1, n) : n \in 0..MaxTables}

LayoutResults == {<<HTable1>>, <<HZone>>, <<HSwipeA>>}

NextLayout ==
    \/ \E names \in Catalogs : TablesLoaded(names)
    \/ SetupDone
    \/ SetupFail
    \/ \E results \in LayoutResults :
          frames < MaxLayoutFrames /\ OnResults(results)
    \/ Tick(FALSE)

SpecLayout == Init /\ [][NextLayout]_vars

\* Probing the hit test: two tables, single hands, nothing is dropped.
HitHands == {HTable1, HNear, HEdge, HBetween, HButton, HButtonCorner, HSwipeA}

HitResults == {<<>>} \cup {<<h>> : h \in HitHands}

NextHit ==
    \/ TablesLoaded(<<"orders", "customers">>)
    \/ SetupDone
    \/ SetupFail
    \/ \E results \in HitResults :
          frames < MaxHitFrames /\ OnResults(results)
    \/ Tick(FALSE)
    \/ TickNoContext(FALSE)
    \/ ToastTimer
    \/ Advance

SpecHit == Init /\ [][NextHit]_vars

\* Notices only: nothing is dropped, the generate button is pinched,
\* released and pinched again.
NoticeResults == {<<HButton>>, <<HSwipeA>>}

NextNotice ==
    \/ SetupDone
    \/ SetupFail
    \/ \E results \in NoticeResults :
          frames < MaxNoticeFrames /\ OnResults(results)
    \/ NoticeTick
    \/ ToastTimer
    \/ Advance

SpecNotice == Init /\ [][NextNotice]_vars

\* ------------------------------------------------- CameraSelector actions
\* The loading screen is replaced by the error screen or by the selector.
Ready(sel) == sel.mounted /\ ~sel.loading /\ sel.error = ""

\* The value of an option element: its value attribute, or its text when
\* the attribute is left out because deviceId is undefined.
OptionValue(camera) ==
    IF camera.deviceId = Undefined THEN camera.label ELSE camera.deviceId

\* useState setters called by getCameras: React drops the update of a
\* component that is no longer mounted.
SetStateStored(sel, next) ==
    [sel EXCEPT !.cameras = next.cameras,
                !.selectedCamera = next.selectedCamera,
                !.error = next.error,
                !.loading = next.loading]

\* The same for a component that is no longer mounted as well.
SetStateUnguarded(sel, next) == SetStateStored(sel, next)

SetState(sel, next) ==
    IF sel.mounted THEN SetStateStored(sel, next) ELSE sel

SelectorStep(what) ==
    /\ ev' = [what |-> what, from |-> "selector"]
    /\ UNCHANGED trackingVars

\* await navigator.mediaDevices.getUserMedia({ video: true }) resolved.
PermissionGranted ==
    /\ selector.pending = "permission"
    /\ selector' = [selector EXCEPT !.pending = "enumerate"]
    /\ SelectorStep("granted")

\* getUserMedia or enumerateDevices rejected, or the API is missing: the
\* catch block and the finally block.
RequestFails ==
    /\ selector.pending \in {"permission", "enumerate"}
    /\ selector' =
          [SetState(selector, [selector EXCEPT !.error = AccessError,
                                               !.loading = FALSE])
             EXCEPT !.pending = "none"]
    /\ SelectorStep("requestFailed")

\* The same without the branch for an empty list.
DevicesEnumeratedNoEmptyCheck(devices) ==
    /\ selector.pending = "enumerate"
    /\ LET videoDevices == VideoDevices(devices)
           next == [selector EXCEPT
                      !.cameras = videoDevices,
                      !.selectedCamera =
                          IF Len(videoDevices) = 0 THEN Undefined
                          ELSE videoDevices[1].deviceId,
                      !.loading = FALSE]
       IN selector' = [SetState(selector, next)
                         EXCEPT !.pending = "none", !.devices = devices]
    /\ SelectorStep("enumerated")

\* enumerateDevices resolved with devices: the rest of the try block and
\* the finally block.
DevicesEnumerated(devices) ==
    /\ selector.pending = "enumerate"
    /\ LET videoDevices == VideoDevices(devices)
           next == IF Len(videoDevices) = 0
                   THEN [selector EXCEPT !.error = NoCamerasError,
                                         !.loading = FALSE]
                   ELSE [selector EXCEPT
                           !.cameras = videoDevices,
                           !.selectedCamera = videoDevices[1].deviceId,
                           !.loading = FALSE]
       IN selector' = [SetState(selector, next)
                         EXCEPT !.pending = "none", !.devices = devices]
    /\ SelectorStep("enumerated")

\* onChange of the select element: option i is picked.
SelectCamera(i) ==
    /\ Ready(selector)
    /\ i \in DOMAIN selector.cameras
    /\ selector' = [selector EXCEPT
                      !.selectedCamera = OptionValue(selector.cameras[i]),
                      !.chosen = i]
    /\ SelectorStep("select")

\* onClick of the initialize button.
handleStartTracking ==
    /\ Ready(selector)
    /\ Len(selector.calls) < MaxCalls
    /\ selector' =
          IF Truthy(selector.selectedCamera)
          THEN [selector EXCEPT
                  !.calls = Append(selector.calls, selector.selectedCamera)]
          ELSE selector
    /\ SelectorStep("click")

\* The parent stops rendering the component.
SelectorUnmount ==
    /\ selector.mounted
    /\ selector' = [selector EXCEPT !.mounted = FALSE]
    /\ SelectorStep("selectorUnmount")

\* App before a camera is selected: CameraSelector is rendered and
\* HandTracking is not.
InitSelector ==
    /\ showChart = FALSE
    /\ chartAnimationState = "hidden"
    /\ chartAnimationAge = AnimCap
    /\ chartData = EmptyChartData
    /\ toast = "none"
    /\ loadingData = FALSE
    /\ tables = <<>>
    /\ draggedTable = 0
    /\ droppedTables = <<>>
    /\ generateButtonHover = FALSE
    /\ buttonClicked = FALSE
    /\ pinchState = [isPinching |-> FALSE, x |-> 0, y |-> 0]
    /\ swipeState = [isTracking |-> FALSE, startX |-> 0, startY |-> 0,
                     currentX |-> 0, currentY |-> 0, age |-> SwipeCap]
    /\ handResults = <<>>
    /\ timers = EmptyBag
    /\ fetches = <<>>
    /\ cur = [sc |-> FALSE, phase |-> "unmounted"]
    /\ zombies = {}
    /\ handsStarted = FALSE
    /\ mounted = FALSE
    /\ infer = "off"
    /\ strayInfer = FALSE
    /\ leaked = FALSE
    /\ clock = 0
    /\ lastFrameTime = 0
    /\ lastTickTime = NoTime
    /\ selector = SelectorInit
    /\ frames = 0
    /\ ev = NoTick

NextSelector ==
    \/ PermissionGranted
    \/ RequestFails
    \/ \E devices \in EnumerationResults : DevicesEnumerated(devices)
    \/ \E i \in 1..MaxDevices : SelectCamera(i)
    \/ handleStartTracking
    \/ SelectorUnmount

SpecSelector == InitSelector /\ [][NextSelector]_vars

\* The frame cap: callbacks arrive one display frame (60 Hz) or two after
\* the previous one.
CallbackGaps == {50, 100}

CapResults == {<<HButton>>, <<HSwipeA>>}

NextCap ==
    \/ SetupDone
    \/ SetupFail
    \/ \E results \in CapResults :
          frames < MaxCapFrames /\ OnResults(results)
    \/ \E dt \in CallbackGaps : renderLoop(dt)

SpecCap == Init /\ [][NextCap]_vars

\* The chart is shown, then the component unmounts at any point: the
\* inference loop of the latest instance is modelled callback by callback
\* and a result is delivered only by a request that is awaited.
DownResults == {<<HSwipeA>>, <<HSwipeB>>}

NextDown ==
    \/ SetupDone
    \/ SetupFail
    \/ \E ready \in BOOLEAN : ProcessFrame(ready)
    \/ \E results \in DownResults :
          /\ frames < MaxDownFrames
          /\ infer = "awaiting" \/ (strayInfer /\ mounted)
          /\ OnResults(results)
    \/ SendDone
    \/ \E sc \in BOOLEAN : Tick(sc)
    \/ ExitTimer
    \/ Advance
    \/ Unmount
    \/ \E sc \in BOOLEAN : TickUnmounted(sc)
    \/ \E kind \in TimerKinds : CallbackAfterUnmount(kind)

SpecDown == InitChart /\ [][NextDown]_vars

TypeOK ==
    /\ showChart \in BOOLEAN
    /\ chartAnimationState \in ViewStates
    /\ chartAnimationAge \in 0..AnimCap
    /\ toast \in {"none", "info", "error"}
    /\ draggedTable \in 0..Len(tables)
    /\ zombies \subseteq BOOLEAN
    /\ mounted \in BOOLEAN
    /\ infer \in {"off", "armed", "awaiting"}
    /\ strayInfer \in BOOLEAN
    /\ leaked \in BOOLEAN
    /\ clock \in Nat
    /\ lastFrameTime \in Nat
    /\ lastTickTime \in Nat \cup {NoTime}
    /\ selector.loading \in BOOLEAN
    /\ selector.pending \in {"permission", "enumerate", "none"}
    /\ frames \in Nat

\* ------------------------------------------------------------------ C1
InOrder ==
    {<<"hidden", "entering">>, <<"entering", "visible">>,
     <<"visible", "exiting">>, <<"exiting", "hidden">>}

\* C1: ViewState changes only along hidden->entering, entering->visible,
\* visible->exiting and exiting->hidden, in every step of every behaviour.
C1_ViewStateNeverSkips ==
    [][chartAnimationState' # chartAnimationState
         => <<chartAnimationState, chartAnimationState'>> \in InOrder]_vars

\* ------------------------------------------------------------------ C2
\* C2: a swipe that completes while ViewState is hidden or entering leaves
\* ViewState, the transition-start timestamp and the pending timers as they
\* were.
C2_SwipeIgnoredUnlessVisible ==
    [][(ev'.what = "swipe" /\ chartAnimationState \in {"hidden", "entering"})
         => UNCHANGED <<chartAnimationState, chartAnimationAge, timers>>]_vars

\* ------------------------------------------------------------------ C7
\* A swipe is being tracked and the first hand's index finger is extended.
TrackedAndExtended ==
    /\ swipeState.isTracking
    /\ Len(handResults) > 0
    /\ handResults[1].index.y < handResults[1].pipY

\* |currentX - startX| > 0.3, |currentY - startY| < 0.2, elapsed < 1000 ms.
C7_Condition ==
    /\ Abs(handResults[1].index.x - swipeState.startX) > SwipeMinDX
    /\ Abs(handResults[1].index.y - swipeState.startY) < SwipeMaxDY
    /\ swipeState.age < SwipeTimeout

\* The step is a chart tick that wrote swipeStateRef.
ChartTickTaken ==
    /\ swipeState' # swipeState
    /\ swipeState'.age = swipeState.age
    /\ handResults' = handResults

\* C7: a swipe-complete event fires only on a tick with a tracked swipe, an
\* extended index finger and |dx| > 0.3, |dy| < 0.2, elapsed < 1000 ms, and
\* every chart tick taken under these conditions fires it; at exactly 0.3,
\* 0.2 or 1000 ms it does not fire, whatever the sign of dx.
C7_SwipeCompletesIff ==
    [][/\ ev'.what = "swipe" => TrackedAndExtended /\ C7_Condition
       /\ (TrackedAndExtended /\ ChartTickTaken)
            => (ev'.what = "swipe" <=> C7_Condition)]_vars

\* A swipe to the left has completed.
C7_Witness ==
    /\ ev.what = "swipe"
    /\ swipeState.currentX - swipeState.startX < 0 - SwipeMinDX

\* ------------------------------------------------------------------ C8
\* C8: a generate action evaluated while DroppedSet is empty raises the
\* error notice and nothing else: no catalog request, no transition timer,
\* ViewState stays hidden, DroppedSet and the objects are unchanged.
C8_EmptyGenerateOnlyNotifies ==
    [][ev'.what = "generateEmpty"
         => /\ toast' = "error"
            /\ timers' = AddTimer(timers, "toast", ToastDuration)
            /\ UNCHANGED <<fetches, loadingData, showChart, chartData>>
            /\ chartAnimationState' = "hidden"
            /\ droppedTables' = <<>>
            /\ tables' = tables]_vars

\* ------------------------------------------------------------------ C3
\* The part of a manipulation tick's result that C3 and C4 compare.
Outcome(r) ==
    [dragged |-> r.dragged, tables |-> r.tables, hover |-> r.hover,
     clicked |-> r.clicked, dropped |-> r.dropped, pinch |-> r.pinch,
     generates |-> Len(r.gen)]

\* C3: whenever PinchState.isPinching is true, a tick that observes no hands
\* gives the same drag target, objects, hover flag, latch, DroppedSet and
\* PinchState as a tick that observes one hand that does not pinch.
C3_NoHandsIsARelease ==
    pinchState.isPinching
        => \A h \in OpenHands :
              Outcome(Manipulate(Refs, <<>>)) = Outcome(Manipulate(Refs, <<h>>))

\* ------------------------------------------------------------------ C4
\* C4: the result of a manipulation tick on two detected hands does not
\* depend on the second hand: replacing it by any other second hand gives
\* the same PinchState, drag target, objects, flags, DroppedSet and the same
\* number of generate actions.
C4_SecondHandIrrelevant ==
    Len(handResults) = 2
        => \A g \in DragHands :
              Outcome(Manipulate(Refs, handResults))
                 = Outcome(Manipulate(Refs, <<handResults[1], g>>))

\* ------------------------------------------------------------------ C5
InRange(v) == ClampMin <= v /\ v <= ClampMax

\* Where a coordinate v moved by delta d has to end up.
Bounded(v, d) ==
    IF v + d > ClampMax THEN ClampMax
    ELSE IF v + d < ClampMin THEN ClampMin
    ELSE v + d

\* A pinch-continue tick on one hand with a drag target was taken.
ContinueTick ==
    /\ draggedTable # 0
    /\ pinchState.isPinching
    /\ Len(handResults) = 1
    /\ IsPinching(handResults[1])
    /\ frames' = frames
    /\ pinchState' # pinchState

\* C5: every step that moves an object leaves its x and y within
\* [0.05, 0.95]; after a pinch-continue tick on a drag target each coordinate
\* is the old one plus the pinch delta, or exactly the bound the delta would
\* carry it past; clamping the result again does not change it.
C5_ContinueStaysClamped ==
    [][/\ \A i \in DOMAIN tables :
             (i \in DOMAIN tables'
                /\ <<tables'[i].x, tables'[i].y>> # <<tables[i].x, tables[i].y>>)
                => InRange(tables'[i].x) /\ InRange(tables'[i].y)
       /\ ContinueTick
            => LET d  == draggedTable
                   dx == PinchX(handResults[1]) - pinchState.x
                   dy == PinchY(handResults[1]) - pinchState.y
               IN /\ tables'[d].x = Bounded(tables[d].x, dx)
                  /\ tables'[d].y = Bounded(tables[d].y, dy)
                  /\ Clamp(tables'[d].x) = tables'[d].x
                  /\ Clamp(tables'[d].y) = tables'[d].y]_vars

\* A dragged object held on the lower bound by a pinch that went past it.
C5_Witness ==
    /\ draggedTable # 0
    /\ pinchState = [isPinching |-> TRUE, x |-> 0, y |-> 0]
    /\ tables[draggedTable].x = ClampMin
    /\ tables[draggedTable].y = ClampMin

\* ------------------------------------------------------------------ C6
NoDuplicates(seq) == \A i, j \in DOMAIN seq : seq[i] = seq[j] => i = j

\* C6: DroppedSet never holds a name twice; a step changes it only by
\* appending one name that was not a member, or by emptying it; a release
\* in the drop zone of an object that is already a member leaves it as it
\* was.
C6_DroppedIsAnOrderedSet ==
    [][/\ NoDuplicates(droppedTables')
       /\ droppedTables' # droppedTables
            => \/ droppedTables' = <<>>
               \/ \E name \in {t.name : t \in Range(tables)}
                                 \ Range(droppedTables) :
                     droppedTables' = Append(droppedTables, name)
       /\ ev'.what = "redrop" => droppedTables' = droppedTables]_vars

\* Both tables were dropped, "orders" first, and "orders" was dropped again.
C6_Witness ==
    /\ ev.what = "redrop"
    /\ droppedTables = <<"orders", "customers">>

\* ------------------------------------------------------------------ C9
\* C9: a generate action on a non-empty DroppedSet schedules the show
\* callback 500 ms ahead and leads to ViewState entering; that callback
\* schedules the visible callback 800 ms ahead; neither is cancelled or
\* delayed; entering leads to visible, set by the visible callback.
C9_GenerateLeadsToVisible ==
    /\ (ev.what = "generate") ~> (chartAnimationState = "entering")
    /\ (chartAnimationState = "entering") ~> (chartAnimationState = "visible")
    /\ [][/\ ev'.what = "generate"
               => Timer("generate", GenerateDelay) \in BagToSet(timers')
          /\ ev'.what = "generateTimer"
               => /\ chartAnimationState' = "entering"
                  /\ Timer("entering", EnterDuration) \in BagToSet(timers')
          /\ \A t \in BagToSet(timers) :
                t.kind \in {"generate", "entering"}
                   => \/ /\ t.rem = 0
                         /\ ev'.what = IF t.kind = "generate"
                                       THEN "generateTimer" ELSE "enterTimer"
                      \/ Timer(t.kind, t.rem) \in BagToSet(timers')
                      \/ Timer(t.kind, t.rem - 1) \in BagToSet(timers')
          /\ ev'.what = "enterTimer" => chartAnimationState' = "visible"]_vars

C9_Witness ==
    /\ ev = [what |-> "enterTimer", from |-> "entering"]
    /\ chartAnimationState = "visible"
    /\ showChart
    /\ droppedTables # <<>>

\* ----------------------------------------------------------------- C10
\* C10: a swipe that completes while ViewState is visible sets ViewState to
\* exiting in that tick and schedules the exit callback 600 ms ahead; a
\* pending exit callback is never cancelled or delayed, and when it runs
\* ViewState is hidden and DroppedSet is empty.
C10_SwipeFromVisibleExits ==
    [][/\ (ev'.what = "swipe" /\ chartAnimationState = "visible")
            => /\ chartAnimationState' = "exiting"
               /\ chartAnimationAge' = 0
               /\ timers' = AddTimer(timers, "exiting", ExitDuration)
       /\ \A t \in BagToSet(timers) :
             t.kind = "exiting"
                => \/ ev'.what = "exitTimer" /\ t.rem = 0
                   \/ Timer("exiting", t.rem) \in BagToSet(timers')
                   \/ Timer("exiting", t.rem - 1) \in BagToSet(timers')
       /\ ev'.what = "exitTimer"
            => /\ chartAnimationState' = "hidden"
               /\ droppedTables' = <<>>]_vars

C10_Witness ==
    /\ ev = [what |-> "swipe", from |-> "visible"]
    /\ chartAnimationState = "exiting"
    /\ Timer("exiting", ExitDuration) \in BagToSet(timers)
    /\ droppedTables # <<>>

\* ----------------------------------------------------------------- C11
\* C11: once ViewState is back at hidden through an exit, the fetched-data
\* snapshot is empty and stays empty until the next generate action.  A
\* generate action needs a non-empty DroppedSet and only the exit callback
\* empties it, so: hidden with DroppedSet empty implies the snapshot is
\* empty.
C11_HiddenMeansNoSnapshot ==
    (chartAnimationState = "hidden" /\ droppedTables = <<>>)
        => chartData = EmptyChartData

\* ----------------------------------------------------------------- C13
\* Only the clock moved the age of the tracked swipe.
OnlyTimePassed ==
    /\ swipeState.isTracking
    /\ swipeState' = [swipeState EXCEPT !.age = Older(@, SwipeCap)]

\* C13: while ViewState is hidden no step writes SwipeState or emits a
\* swipe event; while ViewState is entering, visible or exiting no step
\* changes the drag target, an object, the button hover flag or latch, and
\* DroppedSet changes only in the exit callback.
C13_InputRoutedByViewState ==
    [][/\ chartAnimationState = "hidden"
            => /\ ev'.what # "swipe"
               /\ swipeState' = swipeState \/ OnlyTimePassed
       /\ chartAnimationState \in {"entering", "visible", "exiting"}
            => /\ UNCHANGED <<draggedTable, tables, generateButtonHover,
                              buttonClicked>>
               /\ droppedTables' = droppedTables \/ ev'.what = "exitTimer"]_vars

\* ----------------------------------------------------------------- C20
\* C20: a chart tick on a tracked swipe with an extended index finger, at
\* 1000 ms or more since tracking began (exactly 1000 ms included), stops
\* tracking and emits no swipe event.
C20_TimeoutStopsTracking ==
    [][(TrackedAndExtended /\ swipeState.age >= SwipeTimeout /\ ChartTickTaken)
          => (~swipeState'.isTracking /\ ev'.what # "swipe")]_vars

\* ----------------------------------------------------------------- C18
\* C18: at most one object has isDragging true; an object has isDragging
\* true exactly when it is the drag target; and a non-null drag target
\* implies that a pinch is in progress.
C18_OneDragTarget ==
    /\ Cardinality({i \in DOMAIN tables : tables[i].isDragging}) <= 1
    /\ \A i \in DOMAIN tables : tables[i].isDragging <=> i = draggedTable
    /\ draggedTable # 0 => pinchState.isPinching

\* The second of two objects is being dragged, after a drag of the first
\* one left it inside the drop zone.
C18_Witness ==
    /\ draggedTable = 2
    /\ tables[2].isDragging
    /\ ~tables[1].isDragging
    /\ droppedTables # <<>>

\* ----------------------------------------------------------------- C12
\* The step is a tick in which a pinch starts.
PinchStarts == ~pinchState.isPinching /\ pinchState'.isPinching

\* The pinch point the step recorded lies on the generate button.
LandsOnButton ==
    /\ Abs(pinchState'.x - buttonX) * 2 <= buttonWidth
    /\ Abs(pinchState'.y - buttonY) * 2 <= buttonHeight

\* C12: every tick in which a pinch starts on the generate button evaluates
\* the generate action, whatever pinches, releases and hand disappearances
\* came before, and no tick that continues a pinch evaluates it.
C12_ButtonStartGeneratesOnce ==
    [][/\ (PinchStarts /\ LandsOnButton)
            => ev'.what \in {"generate", "generateEmpty"}
       /\ (pinchState.isPinching /\ pinchState'.isPinching)
            => ev'.what \notin {"generate", "generateEmpty"}]_vars

\* ----------------------------------------------------------------- C19
\* Pixels of the shorter canvas side per unit of a scaled coordinate.
PixelsPerUnit == Min(CanvasWidth, CanvasHeight) \div Scale

\* Objects closer to the point (px, py) than 60 / min(canvasWidth,
\* canvasHeight): the distance, in pixels of the shorter side, is below 60.
InReach(ts, px, py) ==
    {i \in DOMAIN ts :
        Dist2(px, py, ts[i].x, ts[i].y) * PixelsPerUnit * PixelsPerUnit
            < TablePixelSize * TablePixelSize}

\* C19: a tick in which a pinch starts selects the generate button if the
\* pinch point is inside the button rectangle, bounds included, even with
\* an object in reach; otherwise the first object in collection order that
\* is strictly closer than 60 / min(canvasWidth, canvasHeight); otherwise
\* nothing, and then the drag target, the objects, the button flags and
\* DroppedSet stay as they were.
C19_HitTestOrder ==
    [][PinchStarts =>
         LET reach == InReach(tables, pinchState'.x, pinchState'.y)
             first == CHOOSE i \in reach : \A j \in reach : i <= j
         IN IF LandsOnButton
            THEN /\ generateButtonHover'
                 /\ buttonClicked'
                 /\ UNCHANGED <<draggedTable, tables>>
            ELSE IF reach # {}
            THEN /\ draggedTable' = first
                 /\ tables' = [tables EXCEPT ![first].isDragging = TRUE]
                 /\ UNCHANGED <<generateButtonHover, buttonClicked,
                                droppedTables>>
            ELSE UNCHANGED <<draggedTable, tables, generateButtonHover,
                             buttonClicked, droppedTables>>]_vars

\* A pinch has started on the generate button with an object in reach of
\* the pinch point, and no object is dragged.
C19_Witness ==
    /\ pinchState.isPinching
    /\ generateButtonHover
    /\ draggedTable = 0
    /\ InReach(tables, pinchState.x, pinchState.y) # {}

\* ----------------------------------------------------------------- C16
\* C16: a tick that cannot obtain the rendering context does no interaction
\* work and leaves its loop armed: every render loop that had a callback
\* pending before the tick has one pending after it.
C16_NoContextTickRearms ==
    [][ev'.what = "noContext"
         => /\ UNCHANGED <<reactVars, dragVars, swipeState, timers>>
            /\ cur'.phase = cur.phase
            /\ zombies' = zombies]_vars

\* ----------------------------------------------------------------- C14
\* C14: after the unmount no inference loop re-arms, no render loop of the
\* latest instance is running and no acquired stream is left live, at
\* whatever point the unmount happened.
C14_TeardownStopsLoops ==
    ~mounted => /\ infer = "off"
                /\ ~strayInfer
                /\ cur.phase # "running"
                /\ ~leaked

\* ----------------------------------------------------------------- C15
\* C15: after the unmount no step changes ViewState, DroppedSet, the data
\* snapshot or the notice.
C15_TimersDeadAfterTeardown ==
    [][~mounted => UNCHANGED <<chartAnimationState, droppedTables, chartData,
                               toast>>]_vars

\* ----------------------------------------------------------------- C17
\* C17: a callback of the inference loop that issues a detection request
\* leaves the loop armed, without waiting for the request to complete.
C17_RearmsWithoutWaiting ==
    [][ev'.what = "send" => infer' = "armed"]_vars

\* ----------------------------------------------------------------- C21
\* The step is a tick of the running render loop on a frame with one hand.
OneHandTick ==
    /\ Len(handResults) = 1
    /\ cur.phase = "running"
    /\ tables # <<>>
    /\ UNCHANGED <<handResults, frames, cur>>

\* Positions and names of the objects, without their isDragging flags.
Placed(ts) == [i \in DOMAIN ts |-> [name |-> ts[i].name, x |-> ts[i].x, y |-> ts[i].y]]

\* C21: in a tick on one hand the pinch edge is decided by (previous
\* isPinching, current isPinching) alone: (false,true) starts (nothing moves
\* and nothing is dropped), (true,true) continues (the drag target is kept
\* and moved by the clamped displacement of the pinch point), (true,false)
\* releases (drag target, flags and latch are reset, nothing moves) and
\* (false,false) changes nothing; afterwards PinchState.isPinching is the
\* current value and, when pinching, PinchState.x/y is the midpoint of
\* thumb tip and index tip.
C21_PinchEdgeIsPure ==
    [][OneHandTick =>
         LET h    == handResults[1]
             prev == pinchState.isPinching
             now  == (h.thumb.x - h.index.x) * (h.thumb.x - h.index.x)
                       + (h.thumb.y - h.index.y) * (h.thumb.y - h.index.y)
                         < PinchThreshold * PinchThreshold
             d    == draggedTable
         IN /\ pinchState'.isPinching = now
            /\ now => /\ pinchState'.x = (h.thumb.x + h.index.x) \div 2
                      /\ pinchState'.y = (h.thumb.y + h.index.y) \div 2
            /\ (~prev /\ now) => /\ Placed(tables') = Placed(tables)
                                 /\ droppedTables' = droppedTables
            /\ (prev /\ now) =>
                  /\ UNCHANGED <<draggedTable, droppedTables,
                                 generateButtonHover, buttonClicked>>
                  /\ \A i \in DOMAIN tables :
                        IF i = d
                        THEN /\ tables'[i].x = Max(ClampMin, Min(ClampMax,
                                    tables[i].x + pinchState'.x - pinchState.x))
                             /\ tables'[i].y = Max(ClampMin, Min(ClampMax,
                                    tables[i].y + pinchState'.y - pinchState.y))
                        ELSE tables'[i] = tables[i]
            /\ (prev /\ ~now) =>
                  /\ draggedTable' = 0
                  /\ ~generateButtonHover'
                  /\ ~buttonClicked'
                  /\ Placed(tables') = Placed(tables)
                  /\ \A i \in DOMAIN tables : ~tables'[i].isDragging
            /\ (~prev /\ ~now) => UNCHANGED dragVars]_vars

\* A continued pinch has carried the first object into the drop zone.
C21_Witness ==
    /\ pinchState.isPinching
    /\ draggedTable = 1
    /\ pinchState.x = dropZone.x
    /\ tables[1].x = dropZone.x
    /\ tables[1].y = dropZone.y

\* ----------------------------------------------------------------- C22
\* Squared distance between thumb tip and index tip, in 1/Scale^2.
TipDistance2(h) ==
    (h.thumb.x - h.index.x) * (h.thumb.x - h.index.x)
        + (h.thumb.y - h.index.y) * (h.thumb.y - h.index.y)

\* C22: the frame of a tick counts as a pinch exactly when the distance
\* between thumb tip and index tip is strictly below 0.05 (its square
\* below 1/400); at exactly 0.05 it is not a pinch.
C22_PinchIffCloserThanThreshold ==
    [][OneHandTick =>
         (pinchState'.isPinching
            <=> TipDistance2(handResults[1]) * 400 < Scale * Scale)]_vars

\* A tick on a hand whose tips are exactly 0.05 apart has released the
\* pinch that held the first object.
C22_Witness ==
    /\ handResults = <<HExact>>
    /\ ~pinchState.isPinching
    /\ tables # <<>>
    /\ tables[1].x # 20
    /\ draggedTable = 0

\* ----------------------------------------------------------------- C23
\* C23: when the catalog request has failed for every requested table, the
\* snapshot it leaves is the fabricated placeholder dataset, with records
\* for each requested table, and the loading flag is false.
C23_TotalFailureGivesPlaceholder ==
    [][ev'.what \in {"fetchFailed", "importFailed"}
         => /\ chartData'.demo
            /\ chartData'.data = Range(chartData'.tables)
            /\ chartData'.data # {}
            /\ ~loadingData']_vars

\* ----------------------------------------------------------------- C24
\* C24: a notice is showing as long as less than 3 s have passed since a
\* notice was raised, that is, as long as a toast-expiry timer has time
\* left, also when an earlier notice was raised less than 3 s before it;
\* and no notice is showing once every toast-expiry timer has run.
C24_NoticeLastsThreeSeconds ==
    /\ (\E t \in BagToSet(timers) : t.kind = "toast" /\ t.rem > 0)
          => toast # "none"
    /\ Pending(timers, {"toast"}) = 0 => toast = "none"

\* C25: two executed ticks of the render loop are at least 1000/30 ms apart
\* by callback timestamp, and a callback that arrives under budget changes
\* nothing but leaves the loop armed.
C25_ExecutedTicksOneIntervalApart ==
    [][/\ (lastTickTime # NoTime /\ lastTickTime' # lastTickTime)
            => lastTickTime' - lastTickTime >= FrameInterval
       /\ ev'.what = "underBudget"
            => /\ cur' = cur /\ cur.phase = "running"
               /\ UNCHANGED <<reactVars, dragVars, swipeState, timers,
                              fetches, lastTickTime>>]_vars

\* C26: however often the initialize button is activated, onCameraSelect is
\* invoked at most once.
C26_InitializeInvokesOnce == Len(selector.calls) <= 1

\* What the selector shows once getCameras has settled: the error screen
\* exactly when the request failed or no video-input device was listed,
\* otherwise the selector with at least one camera.
SettledView(sel) ==
    LET listed == Filter(sel.devices, "videoinput")
    IN IF sel.error # ""
       THEN /\ sel.cameras = <<>>
            /\ \/ sel.error = AccessError /\ sel.devices = <<>>
               \/ sel.error = NoCamerasError /\ listed = <<>>
       ELSE /\ listed # <<>>
            /\ Len(sel.cameras) = Len(listed)

SelectorPhases(sel) ==
    sel.mounted =>
        /\ sel.loading <=> sel.pending # "none"
        /\ ~sel.loading => SettledView(sel)

\* C27: the selector is loading from mount until the permission request and
\* the enumeration settle, then shows exactly one of error (request failed or
\* no video-input device) and ready (first video-input device selected), and
\* never goes back to loading.
C27_LoadingThenErrorOrReady ==
    [][/\ SelectorPhases(selector) /\ SelectorPhases(selector')
       /\ ~selector.loading => ~selector'.loading
       /\ (selector.loading /\ Ready(selector'))
            => /\ selector'.selectedCamera =
                    Filter(selector'.devices, "videoinput")[1].deviceId
               /\ selector'.chosen = 1]_vars

C27_Witness ==
    /\ selector.mounted /\ ~selector.loading
    /\ selector.error = NoCamerasError
    /\ selector.devices # <<>>

\* A click on the initialize button, also one that invokes nothing, while
\* every listed camera has a device id.
ClickTaken ==
    /\ Ready(selector)
    /\ \A i \in DOMAIN selector.cameras :
          selector.cameras[i].deviceId # Undefined
    /\ ev'.what = "click" /\ ev.what # "click"

\* C28: in the ready state a click on the initialize button invokes
\* onCameraSelect with the device id of the option that is selected: the
\* first one by default, otherwise the one picked last.
C28_ClickPassesSelectedDevice ==
    [][ClickTaken
         => selector'.calls =
              Append(selector.calls,
                     selector.cameras[selector.chosen].deviceId)]_vars

\* The listed cameras with those of undefined deviceId left out.
RECURSIVE WithDeviceId(_)
WithDeviceId(cams) ==
    IF cams = <<>> THEN <<>>
    ELSE IF Head(cams).deviceId # Undefined
         THEN <<Head(cams)>> \o WithDeviceId(Tail(cams))
         ELSE WithDeviceId(Tail(cams))

\* C29: the option list is exactly the enumerated devices of kind
\* 'videoinput' with a defined deviceId, in enumeration order, a missing
\* label replaced by 'Camera N', N the position among the video-input devices.
C29_OptionsAreVideoInputsWithId ==
    Ready(selector)
        => selector.cameras = WithDeviceId(VideoDevices(selector.devices))

StoredState(sel) ==
    <<sel.cameras, sel.selectedCamera, sel.error, sel.loading>>

OneCompletionTimer(state, duration) ==
    chartAnimationState = state
        => /\ Pending(timers, {state}) = 1
           /\ chartAnimationAge <= duration
           /\ Timer(state, duration - chartAnimationAge) \in BagToSet(timers)

\* C31: entering lasts exactly 800 ms and exiting exactly 600 ms whatever
\* input arrives: while in the state exactly one completion timer is pending,
\* due at the full duration after the entry; a swipe while exiting neither
\* restarts nor extends the exit.
C31_TransitionsLastTheirDuration ==
    /\ OneCompletionTimer("entering", EnterDuration)
    /\ OneCompletionTimer("exiting", ExitDuration)

\* C32: the flag that routes hand input and ViewState agree in every
\* reachable state: the results surface is active exactly when ViewState is
\* not hidden.
C32_SurfaceFlagMatchesViewState ==
    showChart <=> chartAnimationState # "hidden"

\* C33: every step leaves DroppedSet unchanged, appends one name at its
\* end, or empties it at the exiting -> hidden transition and nowhere else:
\* no release removes a member and DroppedSet is never emptied while
\* ViewState stays hidden.
C33_DroppedOnlyGrowsUntilReset ==
    [][\/ droppedTables' = droppedTables
       \/ \E name \in {t.name : t \in Range(tables)} :
             droppedTables' = Append(droppedTables, name)
       \/ /\ droppedTables' = <<>>
          /\ chartAnimationState = "exiting"
          /\ chartAnimationState' = "hidden"]_vars

\* C34: whenever ViewState is not hidden no drag is in progress: there is
\* no drag target, no object has isDragging set and PinchState.isPinching is
\* false.
C34_NoDragWhileChartShown ==
    chartAnimationState # "hidden"
        => /\ draggedTable = 0
           /\ \A i \in DOMAIN tables : ~tables[i].isDragging
           /\ ~pinchState.isPinching

\* C35: a chart tick with no hand, or with the index finger not extended,
\* resets swipe tracking, so that a swipe completes only after an unbroken
\* run of ticks with the index finger extended since tracking began.
C35_BrokenSwipeResetsTracking ==
    [][/\ ev'.what = "chartNoHand" => ~swipeState'.isTracking
       /\ (ChartTickTaken /\ Len(handResults) > 0
             /\ handResults[1].index.y >= handResults[1].pipY)
            => ~swipeState'.isTracking]_vars

\* C36: from a generate action with a non-empty DroppedSet until ViewState
\* is hidden again no second generate is evaluated: at most one catalog
\* request and at most one delayed transition to entering are outstanding.
C36_OneGenerateOutstanding ==
    /\ Pending(timers, {"generate"}) <= 1
    /\ Len(fetches) <= 1

\* A tick on one open hand that ends a pinch with a drag target.
ReleaseTick ==
    /\ OneHandTick
    /\ pinchState.isPinching
    /\ draggedTable # 0
    /\ ~pinchState'.isPinching

\* 0.35 <= x <= 0.65 and 0.6 <= y <= 0.8
InsideZone(t) ==
    /\ 35 * Scale <= 100 * t.x /\ 100 * t.x <= 65 * Scale
    /\ 6 * Scale <= 10 * t.y /\ 10 * t.y <= 8 * Scale

Moved(i) ==
    /\ i \in DOMAIN tables'
    /\ <<tables'[i].x, tables'[i].y>> # <<tables[i].x, tables[i].y>>

\* A tick that continues a pinch: a pinch was in progress and the tracked
\* hand still pinches.
PinchContinueTick ==
    /\ UNCHANGED <<handResults, frames>>
    /\ pinchState.isPinching
    /\ Len(handResults) > 0
    /\ TipDistance2(handResults[1]) < PinchThreshold * PinchThreshold

\* C38: an object's position changes only in a pinch-continue tick and only
\* for the drag target: start, release, no-hand and swipe ticks and timer
\* callbacks move nothing, and no other object is ever moved.
C38_OnlyContinueMovesTheTarget ==
    [][\A i \in DOMAIN tables :
          Moved(i) => PinchContinueTick /\ i = draggedTable]_vars

\* C39: for any number of table names the x and y of every object are
\* within [0, 1] in every reachable state, the initial layout included.
C39_PositionsNormalised ==
    \A i \in DOMAIN tables :
        /\ 0 <= tables[i].x /\ tables[i].x <= Scale
        /\ 0 <= tables[i].y /\ tables[i].y <= Scale

\* The Drag Manager state a manipulation tick leaves behind.
DragState(r) ==
    <<r.tables, r.dragged, r.dropped, r.hover, r.clicked, r.pinch>>

\* C40: a manipulation tick executed a second time on the same latest
\* results leaves the Drag Manager state as the first execution left it
\* (drag target, positions, flags, DroppedSet) and evaluates no generate.
C40_SecondTickChangesNothing ==
    (cur.phase = "running" /\ ~cur.sc) =>
        LET first  == Manipulate(Refs, handResults)
            second == Manipulate([first EXCEPT !.gen = <<>>, !.drops = <<>>],
                                 handResults)
        IN /\ DragState(second) = DragState(first)
           /\ second.gen = <<>>

====
